---- MODULE Spec2Model ----
(***************************************************************************)
(* Model of CarlaSyncMode (PythonAPI/examples/synchronous_mode.py): a      *)
(* context manager that switches a CARLA world to synchronous mode, keeps  *)
(* one queue per data source (the world's on_tick event plus each sensor)  *)
(* and, on every tick, returns one item per queue, all of the same frame.  *)
(*                                                                         *)
(* The caller (the "with" block) is a single thread; the world's tick      *)
(* event and the sensors push into the queues from their own threads, so   *)
(* a tick is modelled step by step: one step per queue.get call.           *)
(***************************************************************************)
EXTENDS Integers, Sequences, FiniteSets, TLC

\* ---- bounds of the model ------------------------------------------------
MaxFrame == 3       \* the world stops advancing at this frame id
MaxEnters == 1      \* successful __enter__ calls in a run of Spec
MaxReenters == 2    \* successful __enter__ calls in a run of SpecReenter
MaxFrameE2E == 4    \* the frame at which the end-to-end scenario stops
MaxExits == 2       \* __exit__ calls after one successful __enter__

\* ---- constants of the program -------------------------------------------
NumSensors == 2     \* main() passes camera_rgb and camera_semseg
DefaultFps == 20    \* kwargs.get("fps", 20)

NoArg == 0 - 1      \* "fps" absent from kwargs
None == 0           \* Python None for self.frame (frame ids are >= 1)
NoSettings == [synchronous_mode |-> FALSE, no_rendering_mode |-> FALSE,
               fixed_delta_seconds |-> <<0, 0>>]   \* stands for _settings = None

\* sources of items: 0 is the world's tick event, 1..NumSensors the sensors
Sources == 0..NumSensors

\* sensors in the order given to the constructor; Registration(i) is the
\* source whose callback is registered i-th by __enter__ (i = 1 is on_tick)
Registration(i) == i - 1

\* 1.0 / fps as the rational <<numerator, denominator>>
DeltaSeconds(fps) == IF fps = NoArg THEN <<1, DefaultFps>> ELSE <<1, fps>>

\* carla.WorldSettings(no_rendering_mode=False, synchronous_mode=True, ...)
SyncSettings(delta) ==
    [synchronous_mode |-> TRUE, no_rendering_mode |-> FALSE,
     fixed_delta_seconds |-> delta]

\* settings the world may have before the synchronizer is used
\* (fixed_delta_seconds <<0, 1>> is the variable time step)
InitialSettings ==
    { [synchronous_mode |-> FALSE, no_rendering_mode |-> TRUE,
       fixed_delta_seconds |-> <<0, 1>>],
      [synchronous_mode |-> TRUE, no_rendering_mode |-> FALSE,
       fixed_delta_seconds |-> <<1, 10>>] }

FpsArgs == {NoArg, 30}

VARIABLES
    \* the simulation (carla.World and the sensors)
    worldSettings,   \* settings currently in force
    worldFrame,      \* frame id of the last simulation step
    callbacks,       \* callbacks[s]: queues (indices) registered on source s
    lastDelivered,   \* lastDelivered[s]: frame of the last item s emitted
    pending,         \* pending[s]: queues whose put is still to run for it
    \* the CarlaSyncMode instance
    frame,           \* self.frame
    delta_seconds,   \* self.delta_seconds
    queues,          \* self._queues, each a FIFO of items
    settings,        \* self._settings
    \* the caller
    state,           \* "Idle" or "Active": outside / inside the with block
    pc,              \* where the caller's thread is: "idle" between calls,
                     \* "apply" and "register" inside __enter__, "call",
                     \* "get" and "assert" inside tick
    reg,             \* make_queue calls the running __enter__ has completed
    qi,              \* index of the queue _retrieve_data is called or working on
    data,            \* items collected so far by the list comprehension
    outcome,         \* how the caller's last call ended
    result,          \* the bundle returned by the last successful tick
    \* history, for stating the properties
    stepFrame,       \* value returned by world.tick() in the last tick call
    calls,           \* per _retrieve_data call of the running tick: the queue
                     \* when the call was made and the items it has popped
    nEnter,          \* successful __enter__ calls so far
    nExit,           \* __exit__ calls since the last successful __enter__
    restores,        \* apply_settings calls made by __exit__ since then
    entrySettings,   \* what get_settings returned in the last __enter__
    lastFailed       \* frame of the last tick that ended in Timeout, or None

vars == <<worldSettings, worldFrame, callbacks, lastDelivered, pending, frame,
          delta_seconds, queues, settings, state, pc, qi, data,
          outcome, result, stepFrame, calls, nEnter, nExit,
          restores, entrySettings, lastFailed, reg>>

worldVars == <<worldSettings, worldFrame, callbacks, lastDelivered, pending>>
tickVars == <<pc, qi, data, result, stepFrame, calls,
              lastFailed>>
scopeVars == <<nEnter, nExit, restores, entrySettings, reg>>

Item(f, s) == [frame |-> f, src |-> s]

\* ---- construction -------------------------------------------------------
\* CarlaSyncMode.__init__ on a world that is at some frame with some settings
Init ==
    /\ worldSettings \in InitialSettings
    /\ worldFrame = 1
    /\ callbacks = [s \in Sources |-> <<>>]
    /\ lastDelivered = [s \in Sources |-> 0]
    /\ pending = [s \in Sources |-> <<>>]
    /\ frame = None
    /\ \E fps \in FpsArgs : delta_seconds = DeltaSeconds(fps)
    /\ queues = <<>>
    /\ settings = NoSettings
    /\ state = "Idle"
    /\ pc = "idle"
    /\ qi = 0
    /\ data = <<>>
    /\ outcome = "none"
    /\ result = <<>>
    /\ stepFrame = None
    /\ calls = <<>>
    /\ nEnter = 0
    /\ nExit = 0
    /\ restores = 0
    /\ entrySettings = NoSettings
    /\ lastFailed = None
    /\ reg = 0

\* ---- the simulation -----------------------------------------------------
\* outside synchronous mode the server steps by itself
WorldFreeRun ==
    /\ ~worldSettings.synchronous_mode
    /\ worldFrame < MaxFrame
    /\ worldFrame' = worldFrame + 1
    /\ UNCHANGED <<worldSettings, callbacks, lastDelivered, pending, frame,
                   delta_seconds, queues, settings, state, outcome>>
    /\ UNCHANGED tickVars
    /\ UNCHANGED scopeVars

\* in synchronous mode, a step made by someone else than this synchronizer
OutOfBandTick ==
    /\ worldSettings.synchronous_mode
    /\ state = "Active"
    /\ worldFrame < MaxFrame
    /\ worldFrame' = worldFrame + 1
    /\ UNCHANGED <<worldSettings, callbacks, lastDelivered, pending, frame,
                   delta_seconds, queues, settings, state, outcome>>
    /\ UNCHANGED tickVars
    /\ UNCHANGED scopeVars

\* Put that puts the item at the front of the queue
Put_Front(qs, i, item) == [qs EXCEPT ![i] = <<item>> \o qs[i]]

\* q.put(item) on the i-th queue of self._queues
Put(qs, i, item) == [qs EXCEPT ![i] = Append(qs[i], item)]

\* source s emits the item of frame f, once the callbacks of its previous
\* item have run: the callbacks registered on s are called one after the
\* other, in the order of registration, each a q.put of its own; the
\* first runs here, the others are pending, and the item goes nowhere if
\* none is registered
DeliverFrame(s, f) ==
    /\ pending[s] = <<>>
    /\ lastDelivered[s] < f
    /\ f <= worldFrame
    /\ lastDelivered' = [lastDelivered EXCEPT ![s] = f]
    /\ IF callbacks[s] = <<>>
       THEN UNCHANGED <<queues, pending>>
       ELSE /\ queues' = Put(queues, Head(callbacks[s]), Item(f, s))
            /\ pending' = [pending EXCEPT ![s] = Tail(callbacks[s])]
    /\ UNCHANGED <<worldSettings, worldFrame, callbacks, frame,
                   delta_seconds, settings, state, outcome>>
    /\ UNCHANGED tickVars
    /\ UNCHANGED scopeVars

\* the next callback of the item source s is emitting runs: q.put(item) on
\* the queue it was made for
PutNext(s) ==
    /\ pending[s] # <<>>
    /\ queues' = Put(queues, Head(pending[s]), Item(lastDelivered[s], s))
    /\ pending' = [pending EXCEPT ![s] = Tail(pending[s])]
    /\ UNCHANGED <<worldSettings, worldFrame, callbacks, lastDelivered,
                   frame, delta_seconds, settings, state, outcome>>
    /\ UNCHANGED tickVars
    /\ UNCHANGED scopeVars

\* a step of source s: it goes on with the callbacks of the item it is
\* emitting, or it emits a next item; a source emits items in frame order,
\* at its own pace, and may produce nothing for some frames (a sensor whose
\* period is longer than a step)
Deliver(s) ==
    IF pending[s] # <<>> THEN PutNext(s)
    ELSE \E f \in (lastDelivered[s] + 1)..worldFrame : DeliverFrame(s, f)

\* a step of a source that emits exactly one item per simulation step
DeliverEveryStep(s) ==
    IF pending[s] # <<>> THEN PutNext(s)
    ELSE DeliverFrame(s, lastDelivered[s] + 1)

\* ---- __enter__ ----------------------------------------------------------
\* __enter__ runs as a sequence of calls into the simulation, and the
\* sources go on emitting between them; each call is one step

\* MakeQueue with on_tick registered after the sensors instead of first
MakeQueue_TickLast(qs, cbs, n) ==
    LET s == n % (NumSensors + 1)
        qs2 == Append(qs, <<>>)
        cbs2 == [cbs EXCEPT ![s] = Append(cbs[s], Len(qs2))]
    IN  <<qs2, cbs2>>

\* the n-th make_queue call of __enter__ (world.on_tick for n = 1, the
\* sensors' listen after it, in order): a new empty queue is registered on
\* source Registration(n) and appended to self._queues
MakeQueue(qs, cbs, n) ==
    LET s == Registration(n)
        qs2 == Append(qs, <<>>)
        cbs2 == [cbs EXCEPT ![s] = Append(cbs[s], Len(qs2))]
    IN  <<qs2, cbs2>>

\* self._settings = self.world.get_settings()
EnterGetSettings ==
    /\ state = "Idle"
    /\ pc = "idle"
    /\ pc' = "apply"
    /\ settings' = worldSettings
    /\ entrySettings' = worldSettings
    /\ outcome' = "entering"
    /\ UNCHANGED <<frame, delta_seconds, queues, state, qi, data, result,
                   stepFrame, calls, lastFailed, nEnter, nExit, restores,
                   reg>>
    /\ UNCHANGED worldVars

\* EnterApply reading the settings to restore again after the synchronous
\* ones were applied
EnterApply_Recapture ==
    /\ pc = "apply"
    /\ pc' = "register"
    /\ reg' = 0
    /\ worldSettings' = SyncSettings(delta_seconds)
    /\ settings' = SyncSettings(delta_seconds)
    /\ frame' = worldFrame
    /\ UNCHANGED <<worldFrame, callbacks, lastDelivered, pending,
                   delta_seconds,
                   queues, state, outcome, qi, data, result,
                   stepFrame, calls, lastFailed, nEnter, nExit, restores,
                   entrySettings>>

\* self.frame = self.world.apply_settings(...) when the world accepts the
\* synchronous settings
EnterApply ==
    /\ pc = "apply"
    /\ pc' = "register"
    /\ reg' = 0
    /\ worldSettings' = SyncSettings(delta_seconds)
    /\ frame' = worldFrame
    /\ UNCHANGED <<worldFrame, callbacks, lastDelivered, pending,
                   delta_seconds,
                   queues, settings, state, outcome, qi, data, result,
                   stepFrame, calls, lastFailed, nEnter, nExit, restores,
                   entrySettings>>

\* EnterFail with a queue made and registered before apply_settings
EnterFail_QueuesFirst ==
    /\ pc = "apply"
    /\ pc' = "idle"
    /\ outcome' = "SetupFailure"
    /\ LET made == MakeQueue(queues, callbacks, 1) IN
        /\ queues' = made[1]
        /\ callbacks' = made[2]
    /\ UNCHANGED <<worldSettings, worldFrame, lastDelivered, pending, frame,
                   delta_seconds, settings, state, qi, data, result,
                   stepFrame, calls, lastFailed, reg>>
    /\ UNCHANGED <<nEnter, nExit, restores, entrySettings>>

\* apply_settings raises in __enter__: the exception leaves __enter__ with
\* the settings read and nothing else done
EnterFail ==
    /\ pc = "apply"
    /\ pc' = "idle"
    /\ outcome' = "SetupFailure"
    /\ UNCHANGED <<frame, delta_seconds, queues, settings, state, qi, data,
                   result, stepFrame, calls, lastFailed, reg>>
    /\ UNCHANGED <<nEnter, nExit, restores, entrySettings>>
    /\ UNCHANGED worldVars

\* the next make_queue call of __enter__; after the last one __enter__
\* returns self and the with block begins
EnterMakeQueue ==
    /\ pc = "register"
    /\ LET made == MakeQueue(queues, callbacks, reg + 1) IN
        /\ queues' = made[1]
        /\ callbacks' = made[2]
    /\ IF reg + 1 = NumSensors + 1
       THEN /\ reg' = 0
            /\ pc' = "idle"
            /\ state' = "Active"
            /\ outcome' = "entered"
            /\ nEnter' = nEnter + 1
            /\ nExit' = 0
            /\ restores' = 0
       ELSE /\ reg' = reg + 1
            /\ UNCHANGED <<pc, state, outcome, nEnter, nExit, restores>>
    /\ UNCHANGED <<worldSettings, worldFrame, lastDelivered, pending, frame,
                   delta_seconds, settings, qi, data, result, stepFrame,
                   calls, lastFailed, entrySettings>>

\* the register_event call of the next make_queue (world.on_tick, or a
\* sensor's listen) raises: the synchronous settings stay applied, the
\* queues made before it stay registered and in self._queues, this queue is
\* not appended, and the exception leaves __enter__, so that the with
\* statement runs neither the block nor __exit__
EnterRegFail ==
    /\ pc = "register"
    /\ pc' = "idle"
    /\ reg' = 0
    /\ outcome' = "RegistrationFailure"
    /\ UNCHANGED <<frame, delta_seconds, queues, settings, state, qi, data,
                   result, stepFrame, calls, lastFailed>>
    /\ UNCHANGED <<nEnter, nExit, restores, entrySettings>>
    /\ UNCHANGED worldVars

\* ---- __exit__ -----------------------------------------------------------
\* leaving the with block (after any outcome of the block), or a further
\* explicit __exit__ call on the synchronizer that was left
Exit ==
    /\ pc = "idle"
    /\ \/ state = "Active"
       \/ state = "Idle" /\ nExit >= 1
    /\ nExit < MaxExits
    /\ worldSettings' = settings
    /\ state' = "Idle"
    /\ nExit' = nExit + 1
    /\ restores' = restores + 1
    /\ UNCHANGED <<worldFrame, callbacks, lastDelivered, pending, frame,
                   delta_seconds,
                   queues, settings, outcome, nEnter, entrySettings, reg>>
    /\ UNCHANGED tickVars

\* __exit__ when apply_settings raises: the settings stay as they are and
\* the exception of apply_settings is the one that leaves the with
\* statement, whatever exception the block was left with
ExitFail ==
    /\ pc = "idle"
    /\ \/ state = "Active"
       \/ state = "Idle" /\ nExit >= 1
    /\ nExit < MaxExits
    /\ state' = "Idle"
    /\ nExit' = nExit + 1
    /\ restores' = restores + 1
    /\ outcome' = "RestoreFailure"
    /\ UNCHANGED <<frame, delta_seconds, queues, settings, nEnter,
                   entrySettings, reg>>
    /\ UNCHANGED worldVars
    /\ UNCHANGED tickVars

\* ---- tick ---------------------------------------------------------------
\* Matches accepting whatever item is at the front of the queue
Matches_Any(item, f) == item.frame = item.frame

\* Matches accepting any item that is not newer than the current frame
Matches_AtMost(item, f) == item.frame <= f

\* data.frame == self.frame
Matches(item, f) == item.frame = f

\* TickBegin that steps the world twice
TickBegin_StepTwice ==
    /\ state = "Active"
    /\ pc = "idle"
    /\ worldFrame' = worldFrame + 2
    /\ frame' = worldFrame'
    /\ stepFrame' = worldFrame'
    /\ data' = <<>>
    /\ IF Len(queues) = 0
       THEN /\ pc' = "assert"
            /\ qi' = 0
            /\ calls' = <<>>
       ELSE /\ pc' = "call"
            /\ qi' = 1
            /\ calls' = <<>>
    /\ outcome' = "running"
    /\ result' = <<>>
    /\ UNCHANGED <<worldSettings, callbacks, lastDelivered, pending,
                   delta_seconds,
                   queues, settings, state, lastFailed>>
    /\ UNCHANGED scopeVars

\* TickBegin that steps the world but keeps the old self.frame
TickBegin_KeepFrame ==
    /\ state = "Active"
    /\ pc = "idle"
    /\ worldFrame' = worldFrame + 1
    /\ frame' = frame
    /\ stepFrame' = worldFrame'
    /\ data' = <<>>
    /\ IF Len(queues) = 0
       THEN /\ pc' = "assert"
            /\ qi' = 0
            /\ calls' = <<>>
       ELSE /\ pc' = "call"
            /\ qi' = 1
            /\ calls' = <<>>
    /\ outcome' = "running"
    /\ result' = <<>>
    /\ UNCHANGED <<worldSettings, callbacks, lastDelivered, pending,
                   delta_seconds,
                   queues, settings, state, lastFailed>>
    /\ UNCHANGED scopeVars

\* self.frame = self.world.tick(): the call returns the frame of the step
\* it made; the list comprehension has its first queue to read, or none
TickBegin ==
    /\ state = "Active"
    /\ pc = "idle"
    /\ worldFrame' = worldFrame + 1
    /\ frame' = worldFrame'
    /\ stepFrame' = worldFrame'
    /\ data' = <<>>
    /\ IF Len(queues) = 0
       THEN /\ pc' = "assert"
            /\ qi' = 0
            /\ calls' = <<>>
       ELSE /\ pc' = "call"
            /\ qi' = 1
            /\ calls' = <<>>
    /\ outcome' = "running"
    /\ result' = <<>>
    /\ UNCHANGED <<worldSettings, callbacks, lastDelivered, pending,
                   delta_seconds,
                   queues, settings, state, lastFailed>>
    /\ UNCHANGED scopeVars

\* TickBeginIdle that retrieves without stepping the world
TickBeginIdle_NoStep ==
    /\ state = "Idle"
    /\ pc = "idle"
    /\ worldFrame < MaxFrame
    /\ frame' = worldFrame
    /\ stepFrame' = worldFrame
    /\ data' = <<>>
    /\ IF Len(queues) = 0
       THEN /\ pc' = "assert"
            /\ qi' = 0
            /\ calls' = <<>>
       ELSE /\ pc' = "call"
            /\ qi' = 1
            /\ calls' = <<>>
    /\ outcome' = "running"
    /\ result' = <<>>
    /\ UNCHANGED <<worldSettings, worldFrame, callbacks, lastDelivered,
                   pending,
                   delta_seconds, queues, settings, state, lastFailed>>
    /\ UNCHANGED scopeVars

\* tick called outside the with block (before __enter__ or after __exit__):
\* tick tests nothing, so it runs as it does inside the block
TickBeginIdle ==
    /\ state = "Idle"
    /\ pc = "idle"
    /\ worldFrame < MaxFrame
    /\ worldFrame' = worldFrame + 1
    /\ frame' = worldFrame'
    /\ stepFrame' = worldFrame'
    /\ data' = <<>>
    /\ IF Len(queues) = 0
       THEN /\ pc' = "assert"
            /\ qi' = 0
            /\ calls' = <<>>
       ELSE /\ pc' = "call"
            /\ qi' = 1
            /\ calls' = <<>>
    /\ outcome' = "running"
    /\ result' = <<>>
    /\ UNCHANGED <<worldSettings, callbacks, lastDelivered, pending,
                   delta_seconds,
                   queues, settings, state, lastFailed>>
    /\ UNCHANGED scopeVars

\* the list comprehension calls self._retrieve_data(q, timeout) on its next
\* queue: the call starts on the queue as it is then, with whatever the
\* sources have put into it since the step
RetrieveCall ==
    /\ pc = "call"
    /\ pc' = "get"
    /\ calls' = Append(calls, [snap |-> queues[qi], popped |-> 0])
    /\ UNCHANGED <<frame, delta_seconds, queues, settings, state, qi, data,
                   outcome, result, stepFrame, lastFailed>>
    /\ UNCHANGED worldVars
    /\ UNCHANGED scopeVars

\* GetItem that leaves an item of another frame at the front of the queue
GetItem_KeepStale ==
    /\ pc = "get"
    /\ queues[qi] # <<>>
    /\ LET item == Head(queues[qi])
           rest == IF Matches(item, frame)
                   THEN [queues EXCEPT ![qi] = Tail(queues[qi])]
                   ELSE queues
           count == [calls EXCEPT ![qi].popped = calls[qi].popped + 1]
       IN  /\ queues' = rest
           /\ IF Matches(item, frame)
              THEN /\ data' = Append(data, item)
                   /\ IF qi = Len(queues)
                      THEN /\ pc' = "assert"
                           /\ qi' = qi
                           /\ calls' = count
                      ELSE /\ pc' = "call"
                           /\ qi' = qi + 1
                           /\ calls' = count
              ELSE /\ data' = data
                   /\ pc' = "get"
                   /\ qi' = qi
                   /\ calls' = calls
    /\ UNCHANGED <<frame, delta_seconds, settings, state, outcome, result,
                   stepFrame, lastFailed>>
    /\ UNCHANGED worldVars
    /\ UNCHANGED scopeVars

\* GetItem that reads the front item of the current frame without removing it
GetItem_Peek ==
    /\ pc = "get"
    /\ queues[qi] # <<>>
    /\ LET item == Head(queues[qi])
           rest == IF Matches(item, frame) THEN queues
                   ELSE [queues EXCEPT ![qi] = Tail(queues[qi])]
           count == [calls EXCEPT ![qi].popped =
                        calls[qi].popped + (IF Matches(item, frame) THEN 0 ELSE 1)]
       IN  /\ queues' = rest
           /\ IF Matches(item, frame)
              THEN /\ data' = Append(data, item)
                   /\ IF qi = Len(queues)
                      THEN /\ pc' = "assert"
                           /\ qi' = qi
                           /\ calls' = count
                      ELSE /\ pc' = "call"
                           /\ qi' = qi + 1
                           /\ calls' = count
              ELSE /\ data' = data
                   /\ pc' = "get"
                   /\ qi' = qi
                   /\ calls' = count
    /\ UNCHANGED <<frame, delta_seconds, settings, state, outcome, result,
                   stepFrame, lastFailed>>
    /\ UNCHANGED worldVars
    /\ UNCHANGED scopeVars

\* sensor_queue.get returns the item at the front; _retrieve_data returns it
\* if it is of the current frame and loops otherwise
GetItem ==
    /\ pc = "get"
    /\ queues[qi] # <<>>
    /\ LET item == Head(queues[qi])
           rest == [queues EXCEPT ![qi] = Tail(queues[qi])]
           count == [calls EXCEPT ![qi].popped = calls[qi].popped + 1]
       IN  /\ queues' = rest
           /\ IF Matches(item, frame)
              THEN /\ data' = Append(data, item)
                   /\ IF qi = Len(queues)
                      THEN /\ pc' = "assert"
                           /\ qi' = qi
                           /\ calls' = count
                      ELSE /\ pc' = "call"
                           /\ qi' = qi + 1
                           /\ calls' = count
              ELSE /\ data' = data
                   /\ pc' = "get"
                   /\ qi' = qi
                   /\ calls' = count
    /\ UNCHANGED <<frame, delta_seconds, settings, state, outcome, result,
                   stepFrame, lastFailed>>
    /\ UNCHANGED worldVars
    /\ UNCHANGED scopeVars

\* GetTimeout that empties the queues when it gives up
GetTimeout_DropQueues ==
    /\ pc = "get"
    /\ queues[qi] = <<>>
    /\ pc' = "idle"
    /\ outcome' = "Timeout"
    /\ result' = <<>>
    /\ lastFailed' = frame
    /\ data' = <<>>
    /\ calls' = <<>>
    /\ queues' = [i \in 1..Len(queues) |-> <<>>]
    /\ UNCHANGED <<frame, delta_seconds, settings, state, qi, stepFrame>>
    /\ UNCHANGED worldVars
    /\ UNCHANGED scopeVars

\* GetTimeout handing back what was retrieved so far instead of raising
GetTimeout_Partial ==
    /\ pc = "get"
    /\ queues[qi] = <<>>
    /\ pc' = "idle"
    /\ outcome' = "Timeout"
    /\ result' = data
    /\ lastFailed' = frame
    /\ data' = <<>>
    /\ calls' = <<>>
    /\ UNCHANGED <<frame, delta_seconds, queues, settings, state, qi,
                   stepFrame>>
    /\ UNCHANGED worldVars
    /\ UNCHANGED scopeVars

\* sensor_queue.get(timeout=timeout) found the queue empty and it stayed
\* empty until the timeout elapsed (time is abstracted: while the queue is
\* empty the wait may end at any moment): queue.Empty leaves tick
GetTimeout ==
    /\ pc = "get"
    /\ queues[qi] = <<>>
    /\ pc' = "idle"
    /\ outcome' = "Timeout"
    /\ result' = <<>>
    /\ lastFailed' = frame
    /\ data' = <<>>
    /\ calls' = <<>>
    /\ UNCHANGED <<frame, delta_seconds, queues, settings, state, qi,
                   stepFrame>>
    /\ UNCHANGED worldVars
    /\ UNCHANGED scopeVars

\* assert all(x.frame == self.frame for x in data); return data
TickReturn ==
    /\ pc = "assert"
    /\ pc' = "idle"
    /\ IF \A i \in 1..Len(data) : data[i].frame = frame
       THEN /\ outcome' = "bundle"
            /\ result' = data
       ELSE /\ outcome' = "AssertionError"
            /\ result' = <<>>
    /\ data' = <<>>
    /\ calls' = <<>>
    /\ UNCHANGED <<frame, delta_seconds, queues, settings, state, qi,
                   stepFrame, lastFailed>>
    /\ UNCHANGED worldVars
    /\ UNCHANGED scopeVars

\* ---- the system ---------------------------------------------------------
Next ==
    \/ WorldFreeRun
    \/ OutOfBandTick
    \/ \E s \in Sources : Deliver(s)
    \/ (nEnter < MaxEnters /\ EnterGetSettings)
    \/ EnterApply
    \/ EnterMakeQueue
    \/ EnterFail
    \/ Exit
    \/ (worldFrame < MaxFrame /\ TickBegin)
    \/ RetrieveCall
    \/ GetItem
    \/ GetTimeout
    \/ TickReturn

Spec == Init /\ [][Next]_vars

\* the end-to-end scenario: one scope in which tick is called again and
\* again on a simulation that only tick steps, every source emitting one
\* item per step; a wait of tick may end before or after the delivery it
\* waits for, and the caller's thread is scheduled as in SpecLive
NextE2E ==
    \/ \E s \in Sources : DeliverEveryStep(s)
    \/ EnterGetSettings
    \/ EnterApply
    \/ EnterMakeQueue
    \/ (worldFrame < MaxFrameE2E /\ TickBegin)
    \/ RetrieveCall
    \/ GetItem
    \/ GetTimeout
    \/ TickReturn

SpecE2E ==
    /\ Init
    /\ [][NextE2E]_vars
    /\ WF_vars(RetrieveCall)
    /\ WF_vars(GetItem)
    /\ WF_vars(GetTimeout)
    /\ WF_vars(TickReturn)

\* one scope on a simulation that only tick steps, with the scheduling the
\* code relies on: a pending sensor_queue.get returns when an item is in
\* the queue and raises when its timeout elapses on the empty queue, and
\* the caller's thread goes on from the last retrieval to the return
NextLive ==
    \/ \E s \in Sources : Deliver(s)
    \/ (nEnter < MaxEnters /\ EnterGetSettings)
    \/ EnterApply
    \/ EnterMakeQueue
    \/ Exit
    \/ (worldFrame < MaxFrame /\ TickBegin)
    \/ RetrieveCall
    \/ GetItem
    \/ GetTimeout
    \/ TickReturn

SpecLive ==
    /\ Init
    /\ [][NextLive]_vars
    /\ WF_vars(RetrieveCall)
    /\ WF_vars(GetItem)
    /\ WF_vars(GetTimeout)
    /\ WF_vars(TickReturn)

\* the synchronizer used again: the scope is left and entered a second
\* time, every source emitting one item per step
NextReenter ==
    \/ \E s \in Sources : DeliverEveryStep(s)
    \/ (nEnter < MaxReenters /\ EnterGetSettings)
    \/ EnterApply
    \/ EnterMakeQueue
    \/ Exit
    \/ (worldFrame < MaxFrame /\ TickBegin)
    \/ RetrieveCall
    \/ GetItem
    \/ GetTimeout
    \/ TickReturn

SpecReenter == Init /\ [][NextReenter]_vars

\* the synchronizer misused: tick is also called outside the scope,
\* before __enter__ and after __exit__
NextIdleTick ==
    \/ \E s \in Sources : DeliverEveryStep(s)
    \/ (nEnter < MaxEnters /\ EnterGetSettings)
    \/ EnterApply
    \/ EnterMakeQueue
    \/ Exit
    \/ (worldFrame < MaxFrame /\ TickBegin)
    \/ TickBeginIdle
    \/ RetrieveCall
    \/ GetItem
    \/ GetTimeout
    \/ TickReturn

SpecIdleTick == Init /\ [][NextIdleTick]_vars

\* the synchronizer let down by the simulation: registering a callback
\* fails in an __enter__ made while self._queues holds no queue of an
\* earlier attempt, apply_settings fails in __exit__
NextFailures ==
    \/ \E s \in Sources : DeliverEveryStep(s)
    \/ (nEnter < MaxEnters /\ EnterGetSettings)
    \/ EnterApply
    \/ EnterMakeQueue
    \/ (nEnter = 0 /\ Len(queues) = reg /\ EnterRegFail)
    \/ Exit
    \/ ExitFail
    \/ (worldFrame < MaxFrame /\ TickBegin)
    \/ RetrieveCall
    \/ GetItem
    \/ GetTimeout
    \/ TickReturn

SpecFailures == Init /\ [][NextFailures]_vars

TypeOK ==
    /\ worldFrame >= 1
    /\ frame \in 0..worldFrame
    /\ \A s \in Sources :
          /\ lastDelivered[s] \in 0..worldFrame
          /\ \A n \in 1..Len(pending[s]) : pending[s][n] \in 1..Len(queues)
    /\ state \in {"Idle", "Active"}
    /\ pc \in {"idle", "apply", "register", "call", "get", "assert"}
    /\ reg \in 0..NumSensors
    /\ pc # "register" => reg = 0
    /\ outcome \in {"none", "entering", "entered", "running", "bundle", "SetupFailure",
                    "Timeout", "AssertionError", "RegistrationFailure",
                    "RestoreFailure"}
    /\ pc \in {"call", "get"} => qi \in 1..Len(queues)
    /\ pc = "get" => Len(calls) = qi

\* ---- helpers of the properties -------------------------------------------
\* number of items at the front of q whose frame is smaller than n
RECURSIVE LeadingStale(_, _)
LeadingStale(q, n) ==
    IF q = <<>> \/ Head(q).frame >= n THEN 0
    ELSE 1 + LeadingStale(Tail(q), n)

IsPrefix(p, q) == Len(p) <= Len(q) /\ SubSeq(q, 1, Len(p)) = p

\* the source on which make_queue registered the j-th queue of self._queues
QueueSource(j) ==
    CHOOSE s \in Sources : \E n \in 1..Len(callbacks[s]) : callbacks[s][n] = j

\* every queue still to be read by the running tick holds an item of the
\* current frame
AllPresent ==
    \A j \in qi..Len(queues) :
        \E n \in 1..Len(queues[j]) : queues[j][n].frame = frame

\* ---- properties ------------------------------------------------------------

\* C1 (frame alignment): every item of a bundle returned by tick has the
\* frame id that world.tick() returned in that same call, hence the items
\* of a bundle all have the same frame.
C1_FrameAlignment ==
    outcome = "bundle" =>
        /\ \A i \in 1..Len(result) : result[i].frame = stepFrame
        /\ \A i, j \in 1..Len(result) : result[i].frame = result[j].frame

\* a tick has returned a full bundle although the world's queue still holds
\* a later item and a sensor is behind the world: deliveries interleaved
C1_Witness ==
    /\ outcome = "bundle"
    /\ Len(result) = NumSensors + 1
    /\ stepFrame > 1
    /\ lastDelivered[0] > stepFrame
    /\ lastDelivered[1] = stepFrame

\* C2 (timeout): when the wait on a queue ends with the queue still empty,
\* the tick call ends there with Timeout and hands no bundle to the caller,
\* whatever was already retrieved from the queues before it.
C2_TimeoutNoBundle ==
    /\ [](outcome = "Timeout" => result = <<>>)
    /\ [][(pc = "get" /\ pc' # "get" /\ queues[qi] = <<>>)
            => (pc' = "idle" /\ outcome' = "Timeout" /\ result' = <<>>)]_vars

\* a tick timed out on the third queue, after two items had been retrieved
C2_Witness ==
    /\ outcome = "Timeout"
    /\ pc = "idle"
    /\ qi = 3
    /\ result = <<>>

\* C3 (restoration): once the scope has been exited, the world's settings
\* are the ones get_settings returned when the scope was entered.
C3_Restoration ==
    (state = "Idle" /\ pc = "idle" /\ nExit >= 1) =>
        worldSettings = entrySettings

\* the scope was left after a tick timed out, and the settings are back
C3_Witness ==
    /\ state = "Idle"
    /\ nExit = 1
    /\ outcome = "Timeout"
    /\ worldSettings = entrySettings
    /\ worldSettings # SyncSettings(delta_seconds)

\* C4 (ordering): position 1 of a returned bundle holds the item of the
\* world's tick event and position i + 1 the item of the i-th sensor.
C4_Ordering ==
    outcome = "bundle" =>
        \A i \in 1..(NumSensors + 1) :
            /\ i <= Len(result)
            /\ result[i].src = Registration(i)

\* a bundle was returned although the last sensor had delivered its item of
\* that frame while the world's tick event of that frame was still to come:
\* the sensor is now a frame ahead of the world's event
C4_Witness ==
    /\ outcome = "bundle"
    /\ Len(result) = NumSensors + 1
    /\ lastDelivered[NumSensors] > lastDelivered[0]

\* C5 (stale discard): if the queue, when _retrieve_data is called on it,
\* holds s items older than the current frame followed by an item of the
\* current frame, the call returns that item, removes exactly s + 1 items
\* and leaves the items behind it at the front of the queue, in order.
C5_StaleDiscard ==
    \A j \in 1..Len(data) :
        LET snap == calls[j].snap
            s == LeadingStale(snap, stepFrame)
        IN  (s < Len(snap) /\ snap[s + 1].frame = stepFrame) =>
                /\ calls[j].popped = s + 1
                /\ data[j] = snap[s + 1]
                /\ IsPrefix(SubSeq(snap, s + 2, Len(snap)), queues[j])

\* the call on the first queue found one stale item, the item of the frame,
\* put after the step and before the call, and a later item
C5_Witness ==
    \E j \in {1} :
        /\ Len(data) >= j
        /\ Len(calls[j].snap) = 3
        /\ LeadingStale(calls[j].snap, stepFrame) = 1
        /\ calls[j].snap[2].frame = stepFrame
        /\ calls[j].popped = 2
        /\ queues[j] # <<>>

\* a step of _retrieve_data that pops an item newer than the current frame
FuturePop ==
    /\ pc = "get"
    /\ queues[qi] # <<>>
    /\ Head(queues[qi]).frame > frame
    /\ queues'[qi] = Tail(queues[qi])

\* C6 as claimed (future frame is fatal): popping an item whose frame is
\* greater than the current frame ends the tick with a protocol violation.
C6_FutureFrameFatal ==
    [][FuturePop =>
         (pc' = "idle" /\ outcome' \in {"ProtocolViolation", "AssertionError"})]_vars

\* C7 (recovery after Timeout): a Timeout leaves the synchronizer Active
\* with its queues and callbacks as they were; a later tick never fails its
\* post-condition, and a bundle it returns is complete, of its own frame,
\* holds no item of a failed step and leaves no such item in any queue.
C7_RecoveryAfterTimeout ==
    /\ [][(outcome' = "Timeout" /\ outcome # "Timeout") =>
            (/\ state' = "Active"
             /\ pc' = "idle"
             /\ queues' = queues
             /\ callbacks' = callbacks)]_vars
    /\ [](lastFailed # None => outcome # "AssertionError")
    /\ []((lastFailed # None /\ outcome = "bundle") =>
            /\ Len(result) = Len(queues)
            /\ \A i \in 1..Len(result) :
                 result[i].frame = stepFrame /\ result[i].frame > lastFailed
            /\ \A j \in 1..Len(queues) : \A n \in 1..Len(queues[j]) :
                 queues[j][n].frame > lastFailed)

\* the tick right after a timed-out one returned a full bundle, still in
\* the scope
C7_Witness ==
    /\ state = "Active"
    /\ outcome = "bundle"
    /\ lastFailed = stepFrame - 1
    /\ Len(result) = NumSensors + 1

\* C8 (setup failure): when apply_settings raises in __enter__, the error
\* reaches the caller, the synchronizer stays Idle, no queue is made, no
\* callback is registered, the world's settings are untouched and nothing
\* is restored.
C8_SetupFailure ==
    /\ [][(outcome' = "SetupFailure" /\ outcome # "SetupFailure") =>
            (/\ state = "Idle" /\ state' = "Idle"
             /\ queues' = queues
             /\ callbacks' = callbacks
             /\ worldSettings' = worldSettings
             /\ restores' = restores
             /\ nExit' = nExit)]_vars
    /\ []((outcome = "SetupFailure" /\ nEnter = 0) =>
            /\ state = "Idle"
            /\ queues = <<>>
            /\ \A s \in Sources : callbacks[s] = <<>>
            /\ restores = 0
            /\ worldSettings \in InitialSettings)

\* the first __enter__ failed after reading the settings; items were
\* emitted meanwhile and none was queued
C8_Witness ==
    /\ outcome = "SetupFailure"
    /\ nEnter = 0
    /\ settings = worldSettings
    /\ lastDelivered[0] >= 1

\* C9 as claimed (restore at most once): __exit__ calls after one
\* __enter__ apply the saved settings at most once.
C9_RestoreAtMostOnce == restores <= 1

\* C10 (end-to-end stepping): when every source emits one item per step,
\* every tick call ends; it ends in Timeout only if its wait ended before
\* the source of the awaited queue had put the item of the step, and once
\* every queue holds its item of the step the call returns the bundle, so
\* that with waits that outlast the deliveries every tick returns a
\* bundle; a bundle has NumSensors + 1 items of the frame of its step; the
\* frame of a step is one more than the frame of the step before, hence
\* than the frame of the previous bundle; and no tick fails its
\* post-condition.
C10_EndToEnd ==
    /\ (state = "Active" /\ pc # "idle") ~>
          (pc = "idle" /\ outcome \in {"bundle", "Timeout"})
    /\ (pc \in {"call", "get"} /\ AllPresent) ~>
          (pc = "idle" /\ outcome = "bundle")
    /\ [][(outcome' = "Timeout" /\ outcome # "Timeout") =>
            (pc = "get" /\ lastDelivered[QueueSource(qi)] < frame)]_vars
    /\ [](outcome = "bundle" =>
            /\ Len(result) = NumSensors + 1
            /\ \A i \in 1..Len(result) : result[i].frame = stepFrame)
    /\ [](outcome # "AssertionError")
    /\ [][(outcome' = "running" /\ outcome # "running" /\ stepFrame # None) =>
            stepFrame' = stepFrame + 1]_vars
    /\ [][(outcome = "bundle" /\ outcome' = "running") =>
            stepFrame' = result[1].frame + 1]_vars

\* three ticks in a row have returned their bundle, none has timed out: the
\* third bundle is of the frame three steps after the entry
C10_Witness ==
    /\ outcome = "bundle"
    /\ Len(result) = NumSensors + 1
    /\ result[1].frame >= 4
    /\ lastFailed = None

\* C11 as claimed (queue teardown): while the synchronizer is Idle, with no
\* __enter__ under way, it holds no queue, and once the scope has been
\* left no item is pushed to any of its queues.
C11_QueueTeardown ==
    /\ []((state = "Idle" /\ pc = "idle") => queues = <<>>)
    /\ [][(state = "Idle" /\ pc = "idle" /\ nExit >= 1) =>
            queues' = queues]_vars

\* C12 as claimed (tick only in Active): while the synchronizer is Idle no
\* tick is carried out: none is running and the simulation is not stepped.
C12_TickOnlyInActive ==
    /\ [](state = "Idle" => pc \notin {"call", "get", "assert"})
    /\ [][(state = "Idle" /\ state' = "Idle") => worldFrame' = worldFrame]_vars

\* C12 as amended (tick tests no state): a tick called while Idle is
\* carried out like any other; it steps the simulation once, takes the new
\* frame as current frame and returns one item of that frame from every
\* queue the synchronizer holds, which before the first __enter__ is the
\* empty bundle.
C12_TickWhileIdleRuns ==
    /\ [][(state = "Idle" /\ outcome' = "running" /\ outcome # "running") =>
            (/\ worldFrame' = worldFrame + 1
             /\ frame' = worldFrame'
             /\ queues' = queues)]_vars
    /\ []((state = "Idle" /\ outcome = "bundle") =>
            /\ Len(result) = Len(queues)
            /\ \A i \in 1..Len(result) : result[i].frame = stepFrame)
    /\ []((nEnter = 0 /\ pc = "idle" /\ stepFrame # None) =>
            (outcome = "bundle" /\ result = <<>>))

\* a tick called after the scope was left has retrieved an item of its
\* frame from every queue
C12_Witness ==
    /\ state = "Idle"
    /\ nExit >= 1
    /\ pc = "assert"
    /\ Len(data) = NumSensors + 1
    /\ data[1].frame = worldFrame

\* C13 (no loss after entry): an item emitted by a source is appended at the
\* tail of every queue made for that source, one put after the other and
\* all of them before the source emits again; a queue changes only by such
\* an append or by the synchronizer removing its front item, so that each
\* queue holds items of its own source only, in the order of delivery.
C13_NoLoss ==
    /\ [][\A s \in Sources : lastDelivered'[s] # lastDelivered[s] =>
            /\ pending[s] = <<>>
            /\ callbacks[s] # <<>> =>
                 /\ queues'[Head(callbacks[s])] =
                        Append(queues[Head(callbacks[s])],
                               Item(lastDelivered'[s], s))
                 /\ pending'[s] = Tail(callbacks[s])]_vars
    /\ [][\A s \in Sources : (pending[s] # <<>> /\ pending'[s] # pending[s]) =>
            /\ pending'[s] = Tail(pending[s])
            /\ lastDelivered'[s] = lastDelivered[s]
            /\ queues'[Head(pending[s])] =
                   Append(queues[Head(pending[s])],
                          Item(lastDelivered[s], s))]_vars
    /\ [][\A j \in 1..Len(queues) :
            \/ queues'[j] = queues[j]
            \/ /\ \/ lastDelivered'[QueueSource(j)] # lastDelivered[QueueSource(j)]
                  \/ /\ pending[QueueSource(j)] # <<>>
                     /\ Head(pending[QueueSource(j)]) = j
               /\ queues'[j] = Append(queues[j],
                      Item(lastDelivered'[QueueSource(j)], QueueSource(j)))
            \/ /\ pc = "get" /\ qi = j /\ queues[j] # <<>>
               /\ queues'[j] = Tail(queues[j])]_vars
    /\ [](\A j \in 1..Len(queues) : \A n \in 1..Len(queues[j]) :
            /\ queues[j][n].src = QueueSource(j)
            /\ n > 1 => queues[j][n - 1].frame < queues[j][n].frame)

\* the running call has popped from a queue to which an item was appended
\* meanwhile, and two items wait in it
C13_Witness ==
    /\ pc = "get"
    /\ calls[qi].popped >= 1
    /\ Len(queues[qi]) >= 2
    /\ Len(queues[qi]) + calls[qi].popped > Len(calls[qi].snap)

\* C14 as claimed (error not masked at exit): when the block was left with
\* a Timeout, __exit__ attempts the restoration and the error that reaches
\* the caller is still that Timeout.
C14_ErrorNotMasked ==
    [][(state = "Active" /\ outcome = "Timeout" /\ nExit' = nExit + 1) =>
         (restores' = restores + 1 /\ outcome' = "Timeout")]_vars

\* C15 as claimed (no half-entered state): an __enter__ attempt leaves the
\* synchronizer either Active, with the synchronous settings applied and a
\* callback registered on the world and on every sensor, or Idle with the
\* world's settings as get_settings returned them in that attempt.
C15_NoHalfEntered ==
    /\ state = "Active" =>
          /\ worldSettings = SyncSettings(delta_seconds)
          /\ \A s \in Sources : callbacks[s] # <<>>
    /\ (state = "Idle" /\ pc = "idle" /\ nEnter = 0
            /\ entrySettings # NoSettings) =>
          worldSettings = entrySettings

\* C16 (one step per tick): a tick call begins by stepping the simulation
\* exactly once, with no queue touched, and takes the new frame id as
\* current frame; until the call ends it neither steps the simulation again
\* nor changes the current frame, also when it ends in Timeout.
C16_OneStepPerTick ==
    /\ [][(outcome' = "running" /\ outcome # "running") =>
            (/\ worldFrame' = worldFrame + 1
             /\ frame' = worldFrame'
             /\ queues' = queues
             /\ data' = <<>>)]_vars
    /\ [][(pc \in {"call", "get", "assert"}) =>
            (/\ frame' = frame
             /\ worldFrame' # worldFrame =>
                  (pc' = pc /\ qi' = qi /\ queues' = queues /\ data' = data))]_vars
    /\ []((state = "Active" /\ outcome = "Timeout") =>
            (frame = stepFrame /\ lastFailed = frame /\ worldFrame >= frame))

\* the second tick of the scope timed out: the world is two frames further
\* than at entry and the current frame is the world's
C16_Witness ==
    /\ state = "Active"
    /\ outcome = "Timeout"
    /\ frame = worldFrame
    /\ frame = stepFrame
    /\ frame >= 3

\* C17 (tick terminates): a tick call made in Active ends, with a bundle or
\* with Timeout; it leaves the retrieval for the return only with an item
\* of the current frame from every queue; it times out only on an empty
\* queue; and once every queue holds its item of the current frame the call
\* returns the bundle.
C17_TickTerminates ==
    /\ (state = "Active" /\ pc # "idle") ~>
          (pc = "idle" /\ outcome \in {"bundle", "Timeout"})
    /\ (pc = "get" /\ AllPresent) ~> (pc = "idle" /\ outcome = "bundle")
    /\ [][(pc = "get" /\ pc' = "assert") =>
            (/\ Len(data') = Len(queues)
             /\ \A i \in 1..Len(data') : data'[i].frame = frame)]_vars
    /\ [][(outcome' = "Timeout" /\ outcome # "Timeout") =>
            (pc = "get" /\ queues[qi] = <<>>)]_vars

\* a tick has returned its bundle in a scope in which an earlier tick had
\* ended in Timeout
C17_Witness ==
    /\ state = "Active"
    /\ pc = "idle"
    /\ outcome = "bundle"
    /\ Len(result) = NumSensors + 1
    /\ lastFailed # None

\* C18 (post-condition never fails): whenever tick evaluates its assert,
\* every retrieved item has the current frame, so no tick call ends with
\* the assertion failing, whatever older or newer items were delivered.
C18_PostConditionHolds ==
    /\ pc = "assert" => \A i \in 1..Len(data) : data[i].frame = frame
    /\ outcome # "AssertionError"

\* the assert is about to be evaluated on a full bundle after an older item
\* was discarded from some queue, while a newer item waits in some queue
C18_Witness ==
    /\ pc = "assert"
    /\ Len(data) = NumSensors + 1
    /\ \E j \in 1..Len(calls) : calls[j].popped >= 2
    /\ \E j \in 1..Len(queues) :
          queues[j] # <<>> /\ Head(queues[j]).frame > frame

\* C19 as claimed (1 + k queues): in every Active state the synchronizer
\* holds one queue for the world's tick event and one per sensor, and a
\* returned bundle has as many items, also in a scope entered after an
\* earlier one was left.
C19_QueueCount ==
    state = "Active" =>
        /\ Len(queues) = NumSensors + 1
        /\ outcome = "bundle" => Len(result) = NumSensors + 1
====
